---- MODULE Spec2Model ----
(***************************************************************************)
(* Full-text search of the marketplace backend: query normalisation,       *)
(* ranked search over the SQLite FTS5 external-content index or the        *)
(* PostgreSQL search_vector column, index maintenance by triggers and by   *)
(* SearchService, and the /api/search endpoint built on top of them.       *)
(*                                                                         *)
(* Strings are sequences of one-character strings.  Python's None is the   *)
(* one-element sequence None, which no string over the alphabet equals.    *)
(***************************************************************************)
EXTENDS Integers, Sequences, FiniteSets, TLC

\* ------------------------------------------------------------------ bounds
MaxRawLen == 4

\* --------------------------------------------------------------- alphabet
Lower == {"a", "b"}
Upper == {"A"}
Alnum == Lower \cup Upper
Whitespace == {" "}
Quote == "\""
Punct == {Quote, "!"}
Chars == Alnum \cup Whitespace \cup Punct

None == <<"None">>

RECURSIVE SeqsUpTo(_, _)
SeqsUpTo(S, n) ==
    IF n = 0 THEN {<<>>}
    ELSE LET shorter == SeqsUpTo(S, n - 1)
         IN  shorter \cup {Append(s, c) : s \in {t \in shorter : Len(t) = n - 1}, c \in S}

RawQueries == SeqsUpTo(Chars, MaxRawLen)

\* ---------------------------------------------------------- str primitives
RECURSIVE Concat(_)
Concat(ss) == IF ss = <<>> THEN <<>> ELSE Head(ss) \o Concat(Tail(ss))

RECURSIVE Join(_, _)
Join(sep, ss) ==
    IF ss = <<>> THEN <<>>
    ELSE IF Len(ss) = 1 THEN ss[1]
    ELSE ss[1] \o sep \o Join(sep, Tail(ss))

RECURSIVE LStrip(_)
LStrip(s) == IF s # <<>> /\ Head(s) \in Whitespace THEN LStrip(Tail(s)) ELSE s

RECURSIVE RStrip(_)
RStrip(s) ==
    IF s # <<>> /\ s[Len(s)] \in Whitespace THEN RStrip(SubSeq(s, 1, Len(s) - 1)) ELSE s

\* str.strip()
Strip(s) == RStrip(LStrip(s))

\* Maximal runs of characters satisfying keep, in order (the other
\* characters separate the runs).
RECURSIVE Runs(_, _, _)
Runs(s, keep, cur) ==
    IF s = <<>> THEN (IF cur = <<>> THEN <<>> ELSE <<cur>>)
    ELSE IF Head(s) \in keep THEN Runs(Tail(s), keep, Append(cur, Head(s)))
    ELSE (IF cur = <<>> THEN <<>> ELSE <<cur>>) \o Runs(Tail(s), keep, <<>>)

\* str.split() with no argument: split on whitespace, no empty strings
Split(s) == Runs(s, Chars \ Whitespace, <<>>)

\* A replace that leaves quotes single
ReplaceQuote_single(w) == w

\* str.replace('"', '""')
RECURSIVE ReplaceQuote(_)
ReplaceQuote(w) ==
    IF w = <<>> THEN <<>>
    ELSE (IF Head(w) = Quote THEN <<Quote, Quote>> ELSE <<Head(w)>>) \o ReplaceQuote(Tail(w))

\* A filter that keeps every character
KeepAlnum_keeps_all(w) == w

\* ''.join(c for c in word if c.isalnum())
RECURSIVE KeepAlnum(_)
KeepAlnum(w) ==
    IF w = <<>> THEN <<>>
    ELSE (IF Head(w) \in Alnum THEN <<Head(w)>> ELSE <<>>) \o KeepAlnum(Tail(w))

SeqMap(Op(_), s) == [i \in 1..Len(s) |-> Op(s[i])]

RECURSIVE SeqFilterNonEmpty(_)
SeqFilterNonEmpty(ss) ==
    IF ss = <<>> THEN <<>>
    ELSE (IF Head(ss) # <<>> THEN <<Head(ss)>> ELSE <<>>) \o SeqFilterNonEmpty(Tail(ss))

\* [word.strip() for word in query.split() if word.strip()]
Words(query) == SeqFilterNonEmpty(SeqMap(Strip, Split(query)))

\* ------------------------------------------------------- Query Normalizer
QuoteWord(word) == <<Quote>> \o ReplaceQuote(word) \o <<Quote>>

_prepare_query_sqlite(query) ==
    LET q == Strip(query)
        words == Words(q)
    IN  IF q = <<>> THEN None
        ELSE IF words = <<>> THEN None
        ELSE Join(<<" ">>, SeqMap(QuoteWord, words))

_prepare_query_postgres(query) ==
    LET q == Strip(query)
        words == Words(q)
        escaped_words == SeqFilterNonEmpty(SeqMap(KeepAlnum, words))
    IN  IF q = <<>> THEN None
        ELSE IF words = <<>> THEN None
        ELSE IF escaped_words = <<>> THEN None
        ELSE Join(<<" ", "&", " ">>, escaped_words)

\* ------------------------------------------------------------- data pools
MaxItems == 2
MaxClock == 2
MaxViews == 1
MaxIndexCalls == 2

Ids == 1..MaxItems
Cols == <<"title", "description", "content">>
ColSet == {"title", "description", "content"}

\* Item texts (title, description, content) the requests may carry; every
\* field has at least one character (ItemCreate: min_length=1).
TextAB == [title |-> <<"a", " ", "b">>, description |-> <<"a">>, content |-> <<"!">>]
TextB == [title |-> <<"b">>, description |-> <<"!">>, content |-> <<"b", "!", "b">>]
TextPool == {TextAB, TextB}

TextOf(row) == [title |-> row.title, description |-> row.description, content |-> row.content]

\* ------------------------------------------------------------- tokenizers
FoldCase(c) == IF c = "A" THEN "a" ELSE c

\* FTS5 unicode61 / to_tsvector: maximal alphanumeric runs, case-folded
Tokenize(s) == SeqMap(LAMBDA tok : SeqMap(FoldCase, tok), Runs(s, Alnum, <<>>))

RECURSIVE SumOver(_, _)
SumOver(f, S) ==
    IF S = {} THEN 0
    ELSE LET x == CHOOSE y \in S : TRUE IN f[x] + SumOver(f, S \ {x})

Max(S) == CHOOSE x \in S : \A y \in S : y <= x

SeqToSet(s) == {s[i] : i \in 1..Len(s)}

\* Terms of a text and, per term, its positions <<column, offset>>
TextTerms(txt) == UNION {SeqToSet(Tokenize(txt[c])) : c \in ColSet}
TermPositions(txt, term) ==
    UNION {{<<c, j>> : j \in {i \in 1..Len(Tokenize(txt[c])) : Tokenize(txt[c])[i] = term}} : c \in ColSet}
ColSize(txt) == [c \in ColSet |-> Len(Tokenize(txt[c]))]

\* --------------------------------------- SQLite FTS5 external-content index
\* items_fts is declared with content='items': it stores no text, only
\*   postings  : (rowid, term) -> positions,
\*   docsize   : rowid -> tokens per column,
\*   nTotalRow, aTotalSize : the totals bm25 reads and every delete checks.
EmptyFts ==
    [postings |-> <<>>, docsize |-> <<>>, nTotalRow |-> 0, aTotalSize |-> [c \in ColSet |-> 0]]

\* INSERT INTO items_fts(rowid, title, description, content) VALUES (...)
Fts5Insert(f, id, txt) ==
    LET new == {<<id, t>> : t \in TextTerms(txt)}
    IN  [postings |-> [k \in DOMAIN f.postings \cup new |->
                          IF k \in new THEN TermPositions(txt, k[2]) ELSE f.postings[k]],
         docsize |-> [i \in DOMAIN f.docsize \cup {id} |->
                          IF i = id THEN ColSize(txt) ELSE f.docsize[i]],
         nTotalRow |-> f.nTotalRow + 1,
         aTotalSize |-> [c \in ColSet |-> f.aTotalSize[c] + ColSize(txt)[c]]]

\* A delete that takes more tokens or rows out than the totals hold ends
\* in SQLITE_CORRUPT ("database disk image is malformed").
Fts5DeleteOk(f, txt) ==
    /\ \A c \in ColSet : f.aTotalSize[c] >= ColSize(txt)[c]
    /\ f.nTotalRow >= 1

\* Removing the text txt of rowid id: every (id, term) posting of a term of
\* txt goes, whatever column it was recorded for, and the docsize row.
Fts5Delete(f, id, txt) ==
    LET gone == {<<id, t>> : t \in TextTerms(txt)}
    IN  [postings |-> [k \in DOMAIN f.postings \ gone |-> f.postings[k]],
         docsize |-> [i \in DOMAIN f.docsize \ {id} |-> f.docsize[i]],
         nTotalRow |-> f.nTotalRow - 1,
         aTotalSize |-> [c \in ColSet |-> f.aTotalSize[c] - ColSize(txt)[c]]]

Ok(f) == [ok |-> TRUE, fts |-> f]
Failed(f) == [ok |-> FALSE, fts |-> f]

\* CREATE TRIGGER items_fts_insert AFTER INSERT ON items
items_fts_insert(f, id, new) == Ok(Fts5Insert(f, id, new))

\* items_fts_update without its 'delete' statement
items_fts_update_keeps_old(f, id, old, new) == Ok(Fts5Insert(f, id, new))

\* CREATE TRIGGER items_fts_update AFTER UPDATE ON items
items_fts_update(f, id, old, new) ==
    IF Fts5DeleteOk(f, old) THEN Ok(Fts5Insert(Fts5Delete(f, id, old), id, new))
    ELSE Failed(f)

\* items_fts_delete that leaves the index alone
items_fts_delete_missing(f, id, old) == Ok(f)

\* CREATE TRIGGER items_fts_delete AFTER DELETE ON items
items_fts_delete(f, id, old) ==
    IF Fts5DeleteOk(f, old) THEN Ok(Fts5Delete(f, id, old)) ELSE Failed(f)

\* The postings and totals of an index holding exactly the rows of tbl
RECURSIVE IndexOf(_, _)
IndexOf(tbl, ids) ==
    IF ids = {} THEN EmptyFts
    ELSE LET i == Max(ids) IN Fts5Insert(IndexOf(tbl, ids \ {i}), i, TextOf(tbl[i]))

\* ----------------------------------------- PostgreSQL search_vector column
\* to_tsvector('english', coalesce(title,'') || ' ' || coalesce(description,'')
\*             || ' ' || coalesce(content,'')): lexeme -> positions
to_tsvector(txt) ==
    LET toks == Tokenize(txt.title \o <<" ">> \o txt.description \o <<" ">> \o txt.content)
    IN  [t \in SeqToSet(toks) |-> {i \in 1..Len(toks) : toks[i] = t}]

\* items_search_vector_update(), BEFORE INSERT OR UPDATE ... FOR EACH ROW
items_search_vector_update(new) == [new EXCEPT !.search_vector = to_tsvector(TextOf(new))]

\* ------------------------------------------------- engine query parsers
\* FTS5 reads the MATCH argument as quoted strings ("" inside a string is
\* one quote) separated by spaces.  ReadString reads one string body
\* after its opening quote: <<closed, body, rest>>.
RECURSIVE ReadString(_, _)
ReadString(s, body) ==
    IF s = <<>> THEN <<FALSE, body, <<>> >>
    ELSE IF Head(s) # Quote THEN ReadString(Tail(s), Append(body, Head(s)))
    ELSE IF Len(s) >= 2 /\ s[2] = Quote THEN ReadString(Tail(Tail(s)), Append(body, Quote))
    ELSE <<TRUE, body, Tail(s)>>

\* The strings of a MATCH argument, or a syntax error
RECURSIVE Fts5Parse(_)
Fts5Parse(s) ==
    IF s = <<>> THEN [ok |-> TRUE, phrases |-> <<>>]
    ELSE IF Head(s) \in Whitespace THEN Fts5Parse(Tail(s))
    ELSE IF Head(s) # Quote THEN [ok |-> FALSE, phrases |-> <<>>]
    ELSE LET r == ReadString(Tail(s), <<>>)
             more == Fts5Parse(r[3])
         IN  IF ~r[1] \/ ~more.ok THEN [ok |-> FALSE, phrases |-> <<>>]
             ELSE [ok |-> TRUE, phrases |-> <<r[2]>> \o more.phrases]

\* to_tsquery: operands separated by the operator &, each a single word
RECURSIVE SplitOn(_, _, _)
SplitOn(s, c, cur) ==
    IF s = <<>> THEN <<cur>>
    ELSE IF Head(s) = c THEN <<cur>> \o SplitOn(Tail(s), c, <<>>)
    ELSE SplitOn(Tail(s), c, Append(cur, Head(s)))

to_tsquery(s) ==
    LET operands == SeqMap(Strip, SplitOn(s, "&", <<>>))
        good == \A i \in 1..Len(operands) :
                    /\ operands[i] # <<>>
                    /\ \A j \in 1..Len(operands[i]) : operands[i][j] \in Alnum
    IN  IF good THEN [ok |-> TRUE, lexemes |-> SeqMap(LAMBDA w : SeqMap(FoldCase, w), operands)]
        ELSE [ok |-> FALSE, lexemes |-> <<>>]

\* ------------------------------------------------------------ match, rank
\* Occurrences of the token sequence toks as a phrase of row id
PhraseHits(f, id, toks) ==
    IF <<id, toks[1]>> \notin DOMAIN f.postings THEN {}
    ELSE {p \in f.postings[<<id, toks[1]>>] :
            \A i \in 2..Len(toks) :
                /\ <<id, toks[i]>> \in DOMAIN f.postings
                /\ <<p[1], p[2] + i - 1>> \in f.postings[<<id, toks[i]>>]}

\* The phrases of a MATCH argument that hold a token (the others are dropped)
QueryPhrases(cleaned_query) ==
    SeqFilterNonEmpty(SeqMap(Tokenize, Fts5Parse(cleaned_query).phrases))

\* items_fts MATCH :query
Fts5Match(f, cleaned_query) ==
    LET phrases == QueryPhrases(cleaned_query)
    IN  IF phrases = <<>> THEN {}
        ELSE {id \in {k[1] : k \in DOMAIN f.postings} :
                \A i \in 1..Len(phrases) : PhraseHits(f, id, phrases[i]) # {}}

Fts5Hits(f, id, cleaned_query) ==
    LET phrases == QueryPhrases(cleaned_query)
    IN  SumOver([i \in 1..Len(phrases) |-> Cardinality(PhraseHits(f, id, phrases[i]))],
                1..Len(phrases))

DocLen(f, id) == SumOver(f.docsize[id], ColSet)

\* bm25(items_fts) of row a is smaller (better) than that of row b.  With
\* k1 = 1.2, b = 0.75 and avgdl = total tokens / nTotalRow the comparison of
\* tf / (tf + k1 * (1 - b + b * dl / avgdl)) reduces to integers.
\* a and b are result rows [id, tf, dl]: the hits and the length of the row.
Bm25Before(f, a, b) ==
    LET T == SumOver(f.aTotalSize, ColSet)
    IN  a.tf * (T + 3 * f.nTotalRow * b.dl) > b.tf * (T + 3 * f.nTotalRow * a.dl)

\* search_vector @@ to_tsquery('english', :query)
PgMatch(tbl, cleaned_query) ==
    LET lex == to_tsquery(cleaned_query).lexemes
    IN  {id \in DOMAIN tbl : \A i \in 1..Len(lex) : lex[i] \in DOMAIN tbl[id].search_vector}

PgHits(tbl, id, cleaned_query) ==
    LET lex == to_tsquery(cleaned_query).lexemes
    IN  SumOver([i \in 1..Len(lex) |-> Cardinality(tbl[id].search_vector[lex[i]])], 1..Len(lex))

\* ts_rank of row a is larger (better) than that of row b
TsRankBefore(a, b) == a.tf > b.tf

\* The orders in which an engine may return the rows S under ORDER BY:
\* rows of equal key come in rowid order from SQLite's sorter, and in any
\* order from PostgreSQL.
\* S holds the result rows, each with its id and its sort key; the value is
\* the set of id sequences the engine may return.
RECURSIVE Orders(_, _, _)
Orders(S, Before(_, _), stable) ==
    IF S = {} THEN {<<>>}
    ELSE LET best == {x \in S : \A y \in S : ~Before(y, x)}
             first == IF stable THEN {CHOOSE x \in best : \A y \in best : x.id <= y.id}
                      ELSE best
         IN  UNION {{<<x.id>> \o rest : rest \in Orders(S \ {x}, Before, stable)} : x \in first}

Min(a, b) == IF a < b THEN a ELSE b

\* LIMIT :limit OFFSET :offset
Window(rows, limit, offset) == SubSeq(rows, offset + 1, Min(offset + limit, Len(rows)))

\* ------------------------------------------------------------------ state
VARIABLES
    backend,    \* settings.DATABASE_URL: "sqlite" or "postgres", fixed at start
    items,      \* the items table: id -> row (committed)
    fts,        \* the items_fts index of the SQLite backend (committed)
    seq,        \* last value of the PostgreSQL items_id_seq
    clock,      \* datetime.utcnow()
    last,       \* the last request or service call and its outcome
    raw,        \* the raw query handed to the normalizers
    norm,       \* what the two normalizers returned for raw
    ncalls,     \* direct calls of index_item / remove_from_index so far
    search_logs, \* the search_logs table: the rows in insertion order (committed)
    sess        \* the database sessions of requests in progress

dbvars == <<backend, items, fts, seq, clock>>
normvars == <<raw, norm, ncalls>>
auxvars == <<search_logs, sess>>
vars == <<backend, items, fts, seq, clock, last, raw, norm, ncalls, search_logs, sess>>

Backends == {"sqlite", "postgres"}
NoVector == <<>>
Idle == [op |-> "none", ok |-> TRUE]

\* Requests that run at the same time, each with the session get_db gives it
MaxSessions == 2
Sessions == 1..MaxSessions
Ready == [pc |-> "ready"]

InitDb ==
    /\ backend \in Backends
    /\ items = <<>>
    /\ fts = EmptyFts
    /\ seq = 0
    /\ clock = 0

Init ==
    /\ InitDb
    /\ last = Idle
    /\ raw = <<>>
    /\ norm = [sqlite |-> None, postgres |-> None]
    /\ ncalls = 0
    /\ search_logs = <<>>
    /\ sess = [s \in Sessions |-> Ready]

\* ------------------------------------------------------------ items table
Put(tbl, id, row) == [i \in DOMAIN tbl \cup {id} |-> IF i = id THEN row ELSE tbl[i]]
Drop(tbl, id) == [i \in DOMAIN tbl \ {id} |-> tbl[i]]

\* SQLite: INTEGER PRIMARY KEY takes the largest rowid plus one.
\* PostgreSQL: nextval of the serial sequence.
NextId == IF backend = "postgres" THEN seq + 1
          ELSE IF DOMAIN items = {} THEN 1 ELSE Max(DOMAIN items) + 1

\* category_id is nullable: NULL is written 0, the ids of categories start at 1
NoCategory == 0

NewRow(txt, type, category_id, tags) ==
    [title |-> txt.title, description |-> txt.description, content |-> txt.content,
     type |-> type, category_id |-> category_id, tags |-> tags,
     view_count |-> 0, created_at |-> clock, search_vector |-> NoVector]

\* INSERT INTO items: the row as stored, and the index after the triggers
InsertInto(tbl, f, id, row) ==
    IF backend = "postgres"
    THEN [ok |-> TRUE, items |-> Put(tbl, id, items_search_vector_update(row)), fts |-> f]
    ELSE LET t == items_fts_insert(f, id, TextOf(row))
         IN  [ok |-> t.ok, items |-> Put(tbl, id, row), fts |-> t.fts]

InsertRow(id, row) == InsertInto(items, fts, id, row)

\* UPDATE items ... WHERE id = :id
UpdateRow(id, row) ==
    IF backend = "postgres"
    THEN [ok |-> TRUE, items |-> Put(items, id, items_search_vector_update(row)), fts |-> fts]
    ELSE LET t == items_fts_update(fts, id, TextOf(items[id]), TextOf(row))
         IN  [ok |-> t.ok, items |-> Put(items, id, row), fts |-> t.fts]

\* DELETE FROM items WHERE id = :id
DeleteRow(id) ==
    IF backend = "postgres"
    THEN [ok |-> TRUE, items |-> Drop(items, id), fts |-> fts]
    ELSE LET t == items_fts_delete(fts, id, TextOf(items[id]))
         IN  [ok |-> t.ok, items |-> Drop(items, id), fts |-> t.fts]

\* A commit that publishes the row change before the index change
Commit_items_first(r) ==
    /\ items' = IF r.ok THEN r.items ELSE items
    /\ fts' = fts

\* db.commit(): a statement that failed leaves nothing behind (the session
\* is rolled back when the request ends).
Commit(r) ==
    /\ items' = IF r.ok THEN r.items ELSE items
    /\ fts' = IF r.ok THEN r.fts ELSE fts

\* What a caller knows of the entity it removes: the terms of the index
\* entry of id that no other entry holds
EntryTerms(id) ==
    IF backend = "postgres"
    THEN IF id \in DOMAIN items THEN DOMAIN items[id].search_vector ELSE {}
    ELSE {k[2] : k \in {x \in DOMAIN fts.postings : x[1] = id}}
UniqueEntryTerms(id) ==
    {t \in EntryTerms(id) :
        IF backend = "postgres"
        THEN \A j \in DOMAIN items \ {id} : t \notin DOMAIN items[j].search_vector
        ELSE \A k \in DOMAIN fts.postings : k[2] = t => k[1] = id}

\* ------------------------------------------------------------ items router
Types == {"agent", "prompt"}

create_item(txt, type, category_id, tags) ==
    LET id == NextId
        r == InsertRow(id, NewRow(txt, type, category_id, tags))
    IN  /\ id <= MaxItems
        /\ clock < MaxClock
        /\ Commit(r)
        /\ seq' = IF backend = "postgres" THEN id ELSE seq
        /\ clock' = clock + 1
        /\ last' = [op |-> "create_item", ok |-> r.ok]
        /\ UNCHANGED <<backend, raw, norm, ncalls, auxvars>>

\* ItemUpdate: every field is optional, None leaves the column alone
Patch(row, item_data) ==
    [row EXCEPT
        !.title = IF item_data.title # None THEN item_data.title ELSE @,
        !.description = IF item_data.description # None THEN item_data.description ELSE @,
        !.content = IF item_data.content # None THEN item_data.content ELSE @]

UpdatePool == TextPool \cup {[title |-> <<"A">>, description |-> None, content |-> None]}

update_item(item_id, item_data) ==
    /\ item_id \in DOMAIN items
    /\ LET row == Patch(items[item_id], item_data)
           \* the ORM emits no UPDATE when no attribute changed
           r == IF row = items[item_id] THEN [ok |-> TRUE, items |-> items, fts |-> fts]
                ELSE UpdateRow(item_id, row)
       IN  /\ Commit(r)
           /\ last' = [op |-> "update_item", ok |-> r.ok]
    /\ UNCHANGED <<backend, seq, clock, raw, norm, ncalls, auxvars>>

delete_item(item_id) ==
    /\ item_id \in DOMAIN items
    /\ LET r == DeleteRow(item_id)
       IN  /\ Commit(r)
           /\ last' = [op |-> "delete_item", ok |-> r.ok, item_id |-> item_id,
                        terms |-> UniqueEntryTerms(item_id)]
    /\ UNCHANGED <<backend, seq, clock, raw, norm, ncalls, auxvars>>

increment_view_count(item_id) ==
    /\ item_id \in DOMAIN items
    /\ items[item_id].view_count < MaxViews
    /\ LET r == UpdateRow(item_id, [items[item_id] EXCEPT !.view_count = @ + 1])
       IN  /\ Commit(r)
           /\ last' = [op |-> "increment_view_count", ok |-> r.ok]
    /\ UNCHANGED <<backend, seq, clock, raw, norm, ncalls, auxvars>>

\* increment_view_count in session s, statement by statement.  First
\* db.query(Item).filter(Item.id == item_id).first(): the session holds the
\* row as it read it.
increment_view_count_query(s, item_id) ==
    /\ sess[s] = Ready
    /\ item_id \in DOMAIN items
    /\ items[item_id].view_count < MaxViews
    /\ sess' = [sess EXCEPT ![s] = [pc |-> "view_loaded", item_id |-> item_id,
                                     view_count |-> items[item_id].view_count]]
    /\ last' = [op |-> "view_query", ok |-> TRUE]
    /\ UNCHANGED <<dbvars, raw, norm, ncalls, search_logs>>

\* Then item.view_count += 1 on the loaded object, db.commit() (UPDATE items
\* SET view_count = <loaded value + 1> WHERE id = item_id) and
\* db.refresh(item); data is the value the response carries.
increment_view_count_commit(s) ==
    /\ sess[s].pc = "view_loaded"
    /\ LET item_id == sess[s].item_id
           r == IF item_id \in DOMAIN items
                THEN UpdateRow(item_id, [items[item_id] EXCEPT
                                            !.view_count = sess[s].view_count + 1])
                ELSE [ok |-> FALSE, items |-> items, fts |-> fts]
       IN  /\ Commit(r)
           /\ sess' = [sess EXCEPT ![s] =
                          [pc |-> IF r.ok THEN "viewed" ELSE "failed", item_id |-> item_id,
                           view_count |-> sess[s].view_count,
                           data |-> IF r.ok THEN r.items[item_id].view_count ELSE 0]]
           /\ last' = [op |-> "view_commit", ok |-> r.ok]
    /\ UNCHANGED <<backend, seq, clock, raw, norm, ncalls, search_logs>>

\* ---------------------------------------------------------- SearchService
DefaultLimit == 20

\* _search_sqlite that reports the rows of the page as the total
_search_sqlite_counts_page(query, limit, offset) ==
    LET cleaned_query == _prepare_query_sqlite(query)
        matched == IF cleaned_query = None THEN {} ELSE Fts5Match(fts, cleaned_query)
        page == Window([i \in 1..Cardinality(matched) |-> i], limit, offset)
    IN  {[ok |-> TRUE, ids |-> page, total |-> Len(page), queries |-> 2]}

\* _search_sqlite: what one call may return.  queries counts the backend
\* queries issued; ok = FALSE is an exception raised by the backend.
_search_sqlite(query, limit, offset) ==
    LET cleaned_query == _prepare_query_sqlite(query)
        matched == Fts5Match(fts, cleaned_query)
        total_count == Cardinality(matched)
    IN  IF cleaned_query = None
        THEN {[ok |-> TRUE, ids |-> <<>>, total |-> 0, queries |-> 0]}
        ELSE IF total_count = 0
        THEN {[ok |-> TRUE, ids |-> <<>>, total |-> 0, queries |-> 1]}
        ELSE IF \E id \in matched : id \notin DOMAIN fts.docsize
        \* bm25() finds no docsize row: SQLITE_CORRUPT
        THEN {[ok |-> FALSE, ids |-> <<>>, total |-> 0, queries |-> 2]}
        ELSE {[ok |-> TRUE, ids |-> Window(rows, limit, offset),
               total |-> total_count, queries |-> 2] :
                 rows \in Orders({[id |-> id, tf |-> Fts5Hits(fts, id, cleaned_query),
                                    dl |-> DocLen(fts, id)] : id \in matched},
                                  LAMBDA a, b : Bm25Before(fts, a, b), TRUE)}

\* _search_postgres without the return after a count of zero
_search_postgres_always_fetches(query, limit, offset) ==
    LET cleaned_query == _prepare_query_postgres(query)
        matched == PgMatch(items, cleaned_query)
    IN  IF cleaned_query = None
        THEN {[ok |-> TRUE, ids |-> <<>>, total |-> 0, queries |-> 0]}
        ELSE {[ok |-> TRUE, ids |-> Window(rows, limit, offset),
               total |-> Cardinality(matched), queries |-> 2] :
                 rows \in Orders({[id |-> id, tf |-> PgHits(items, id, cleaned_query)] :
                                     id \in matched}, TsRankBefore, FALSE)}

_search_postgres(query, limit, offset) ==
    LET cleaned_query == _prepare_query_postgres(query)
        matched == PgMatch(items, cleaned_query)
        total_count == Cardinality(matched)
    IN  IF cleaned_query = None
        THEN {[ok |-> TRUE, ids |-> <<>>, total |-> 0, queries |-> 0]}
        ELSE IF total_count = 0
        THEN {[ok |-> TRUE, ids |-> <<>>, total |-> 0, queries |-> 1]}
        ELSE {[ok |-> TRUE, ids |-> Window(rows, limit, offset),
               total |-> total_count, queries |-> 2] :
                 rows \in Orders({[id |-> id, tf |-> PgHits(items, id, cleaned_query)] :
                                     id \in matched}, TsRankBefore, FALSE)}

\* SearchService.search(db, query, limit, offset)
search(query, limit, offset) ==
    IF Strip(query) = <<>>
    THEN {[ok |-> TRUE, ids |-> <<>>, total |-> 0, queries |-> 0]}
    ELSE IF backend = "postgres" THEN _search_postgres(query, limit, offset)
    ELSE _search_sqlite(query, limit, offset)

\* SearchService.search in session s, query by query.  First the normalizer
\* and SELECT COUNT(*) ... on the index as committed at that moment; the
\* call returns ([], 0) at once without a query or after a count of zero.
search_count(s, query, limit, offset) ==
    /\ sess[s] = Ready
    /\ LET cleaned_query == IF backend = "postgres" THEN _prepare_query_postgres(query)
                            ELSE _prepare_query_sqlite(query)
           total_count == IF Strip(query) = <<>> \/ cleaned_query = None THEN 0
                          ELSE IF backend = "postgres"
                          THEN Cardinality(PgMatch(items, cleaned_query))
                          ELSE Cardinality(Fts5Match(fts, cleaned_query))
       IN  /\ sess' = [sess EXCEPT ![s] =
                          IF total_count = 0
                          THEN [pc |-> "searched", query |-> query, limit |-> limit,
                                offset |-> offset, ok |-> TRUE, ids |-> <<>>, total |-> 0]
                          ELSE [pc |-> "counted", query |-> query, limit |-> limit,
                                offset |-> offset, total |-> total_count]]
           /\ last' = [op |-> "search_count", ok |-> TRUE]
    /\ UNCHANGED <<dbvars, raw, norm, ncalls, search_logs>>

\* Then the ranked fetch, on the index as committed at that moment, and
\* return item_ids, total_count with the count of the first query.
search_fetch(s) ==
    /\ sess[s].pc = "counted"
    /\ \E r \in search(sess[s].query, sess[s].limit, sess[s].offset) :
          sess' = [sess EXCEPT ![s] =
                      [pc |-> "searched", query |-> sess[s].query, limit |-> sess[s].limit,
                       offset |-> sess[s].offset, ok |-> r.ok, ids |-> r.ids,
                       total |-> IF r.ok THEN sess[s].total ELSE 0]]
    /\ last' = [op |-> "search_fetch", ok |-> TRUE]
    /\ UNCHANGED <<dbvars, raw, norm, ncalls, search_logs>>

\* DELETE FROM items_fts [WHERE rowid IN ids]: an external-content table
\* finds its rows, and the text to take out of the index, in items.
RECURSIVE DeleteFromFts(_, _, _)
DeleteFromFts(f, tbl, ids) ==
    IF ids = {} THEN Ok(f)
    ELSE LET i == CHOOSE x \in ids : \A y \in ids : x <= y
         IN  IF Fts5DeleteOk(f, TextOf(tbl[i]))
             THEN DeleteFromFts(Fts5Delete(f, i, TextOf(tbl[i])), tbl, ids \ {i})
             ELSE Failed(f)

\* INSERT INTO items_fts(rowid, ...) SELECT id, ... FROM items
RECURSIVE InsertIntoFts(_, _, _)
InsertIntoFts(f, tbl, ids) ==
    IF ids = {} THEN f
    ELSE LET i == CHOOSE x \in ids : \A y \in ids : x <= y
         IN  InsertIntoFts(Fts5Insert(f, i, TextOf(tbl[i])), tbl, ids \ {i})

\* A rebuild that skips DELETE FROM items_fts
RebuildFts_insert_only(f, tbl) == Ok(InsertIntoFts(f, tbl, DOMAIN tbl))

\* The two statements of a rebuild on SQLite
RebuildFts(f, tbl) ==
    LET d == DeleteFromFts(f, tbl, DOMAIN tbl)
    IN  IF d.ok THEN Ok(InsertIntoFts(d.fts, tbl, DOMAIN tbl)) ELSE Failed(f)

\* SearchService.rebuild_index(db)
rebuild_index ==
    /\ IF backend = "postgres"
       THEN /\ items' = [i \in DOMAIN items |-> items_search_vector_update(items[i])]
            /\ fts' = fts
            /\ last' = [op |-> "rebuild_index", ok |-> TRUE]
       ELSE LET r == RebuildFts(fts, items)
            IN  /\ fts' = r.fts
                /\ items' = items
                /\ last' = [op |-> "rebuild_index", ok |-> r.ok]
    /\ UNCHANGED <<backend, seq, clock, raw, norm, ncalls, auxvars>>

\* startup_event().  SQLite: the table and the triggers are (re)created and,
\* when items has rows, INSERT INTO items_fts(items_fts) VALUES('rebuild')
\* drops the index data and builds it from the rows of items.  PostgreSQL:
\* only rows with a NULL search_vector are indexed, and the insert trigger
\* leaves none.
startup_event ==
    /\ fts' = IF backend = "sqlite" /\ Cardinality(DOMAIN items) > 0
              THEN IndexOf(items, DOMAIN items)
              ELSE fts
    /\ last' = [op |-> "startup_event", ok |-> TRUE]
    /\ UNCHANGED <<backend, items, seq, clock, raw, norm, ncalls, auxvars>>

\* A rollback that leaves the writes of the transaction in place
Rollback_keeps_writes(committed, written) == written

\* db.rollback(), and db.close() of a session that did not commit: what the
\* transaction wrote is dropped, other sessions keep seeing what was
\* committed before
Rollback(committed, written) == committed

\* The first n of the ids, in primary key order
RECURSIVE FirstIds(_, _)
FirstIds(ids, n) ==
    IF n = 0 \/ ids = {} THEN {}
    ELSE LET i == CHOOSE x \in ids : \A y \in ids : x <= y
         IN  {i} \cup FirstIds(ids \ {i}, n - 1)

\* A rebuild (fn is "rebuild_index" or "rebuild_fts_index") that a backend
\* error ends before its commit: the DELETE raises on a drifted index, or
\* it clears the index and the INSERT ... SELECT raises after n rows.
\* rebuild_fts_index rolls back in its except clause; rebuild_index lets
\* the exception pass and the session of its caller is closed uncommitted.
\* unchanged, rebuilt: the committed index is the one from before the
\* call, the one a rebuild that ran to its end leaves.
rebuild_interrupted(fn, n) ==
    /\ n <= Cardinality(DOMAIN items)
    /\ LET d == DeleteFromFts(fts, items, DOMAIN items)
           written == IF backend = "postgres" \/ ~d.ok THEN fts
                      ELSE InsertIntoFts(d.fts, items, FirstIds(DOMAIN items, n))
           full == IF backend = "postgres" THEN fts ELSE RebuildFts(fts, items).fts
       IN  /\ fts' = Rollback(fts, written)
           /\ last' = [op |-> "rebuild_interrupted", fn |-> fn, ok |-> FALSE,
                        raised |-> (fn = "rebuild_index"),
                        cleared |-> (backend = "sqlite" /\ d.ok),
                        unchanged |-> (fts' = fts), rebuilt |-> (fts' = full)]
    /\ UNCHANGED <<backend, items, seq, clock, raw, norm, ncalls, auxvars>>

\* SearchService.index_item(db, item_id, title, description, content),
\* committed by its caller.  had: the index held an entry for item_id when
\* the call was made.
index_item(item_id, txt) ==
    /\ ncalls < MaxIndexCalls
    /\ ncalls' = ncalls + 1
    /\ IF backend = "postgres"
       THEN /\ fts' = fts
            /\ last' = [op |-> "index_item", ok |-> TRUE, item_id |-> item_id, txt |-> txt,
                         had |-> (item_id \in DOMAIN items)]
       ELSE LET d == DeleteFromFts(fts, items, {item_id} \cap DOMAIN items)
            IN  /\ fts' = IF d.ok THEN Fts5Insert(d.fts, item_id, txt) ELSE fts
                /\ last' = [op |-> "index_item", ok |-> d.ok, item_id |-> item_id, txt |-> txt,
                             had |-> (EntryTerms(item_id) # {})]
    /\ UNCHANGED <<backend, items, seq, clock, raw, norm, auxvars>>

\* SearchService.remove_from_index(db, item_id), committed by its caller.
\* again: the call repeats the call before it, which returned without
\* error; same: the call left the index as it was.
remove_from_index(item_id) ==
    /\ ncalls < MaxIndexCalls
    /\ ncalls' = ncalls + 1
    /\ LET d == IF backend = "postgres" THEN Ok(fts)
                ELSE DeleteFromFts(fts, items, {item_id} \cap DOMAIN items)
       IN  /\ fts' = d.fts
           /\ last' = [op |-> "remove_from_index", ok |-> d.ok, item_id |-> item_id,
                        terms |-> UniqueEntryTerms(item_id),
                        again |-> (last.op = "remove_from_index" /\ last.ok
                                     /\ last.item_id = item_id),
                        same |-> (d.fts = fts)]
    /\ UNCHANGED <<backend, items, seq, clock, raw, norm, auxvars>>

\* A caller of SearchService.search
SearchCall(query, limit, offset) ==
    /\ \E r \in search(query, limit, offset) :
          last' = [op |-> "search", ok |-> r.ok, query |-> query, limit |-> limit,
                   offset |-> offset, ids |-> r.ids, total |-> r.total, queries |-> r.queries]
    /\ UNCHANGED <<dbvars, raw, norm, ncalls, auxvars>>

\* -------------------------------------------------------------- seed router
\* reset_database(db).  SQLite: DELETE FROM items fires items_fts_delete for
\* every row, and the DELETE FROM items_fts that follows finds no row left
\* in items.  PostgreSQL has no items_fts: the failed statement aborts the
\* transaction and the final commit ends it without effect.
reset_database ==
    /\ IF backend = "postgres"
       THEN /\ UNCHANGED <<items, fts, search_logs>>
            /\ last' = [op |-> "reset_database", ok |-> TRUE]
       ELSE LET d == DeleteFromFts(fts, items, DOMAIN items)
            IN  /\ items' = IF d.ok THEN <<>> ELSE items
                /\ search_logs' = IF d.ok THEN <<>> ELSE search_logs
                /\ fts' = d.fts
                /\ last' = [op |-> "reset_database", ok |-> d.ok]
    /\ UNCHANGED <<backend, seq, clock, raw, norm, ncalls, sess>>

\* rebuild_fts_index(db): the SQLite statements whatever the backend, every
\* exception swallowed after a rollback
rebuild_fts_index ==
    /\ fts' = IF backend = "postgres" THEN fts ELSE RebuildFts(fts, items).fts
    /\ last' = [op |-> "rebuild_fts_index", ok |-> TRUE]
    /\ UNCHANGED <<backend, items, seq, clock, raw, norm, ncalls, auxvars>>

\* seed_database(db, reset = False) on an empty catalog: the tags, then one
\* item per entry of the sample data (an entry whose title exists is
\* skipped), then rebuild_fts_index.  n is the number of sample entries.
MaxSeed == 21
MaxSeedPg == 3

TAGS == {<<"a", "b">>, <<"b">>}

RECURSIVE Bangs(_)
Bangs(n) == IF n = 0 THEN <<>> ELSE <<"!">> \o Bangs(n - 1)

\* The i-th entry of the sample data; the titles are distinct
SampleItem(i) ==
    [title |-> <<"b">> \o Bangs(i - 1),
     description |-> IF i % 2 = 0 THEN <<"a">> ELSE <<"!">>,
     content |-> IF i % 3 = 0 THEN <<"b", " ", "a">> ELSE <<"!">>,
     type |-> IF i % 2 = 1 THEN "agent" ELSE "prompt",
     category_id |-> IF i % 3 = 0 THEN 1 ELSE NoCategory,
     tags |-> IF i % 3 = 1 THEN {} ELSE IF i % 3 = 2 THEN {<<"b">>} ELSE {<<"a", "b">>}]

RECURSIVE seed_items(_, _, _, _)
seed_items(tbl, f, i, n) ==
    IF i > n THEN [items |-> tbl, fts |-> f]
    ELSE IF \E k \in DOMAIN tbl : tbl[k].title = SampleItem(i).title
    THEN seed_items(tbl, f, i + 1, n)
    ELSE LET item_data == SampleItem(i)
             id == IF DOMAIN tbl = {} THEN 1 ELSE Max(DOMAIN tbl) + 1
             row == [title |-> item_data.title, description |-> item_data.description,
                     content |-> item_data.content, type |-> item_data.type,
                     category_id |-> item_data.category_id, tags |-> item_data.tags \cap TAGS,
                     view_count |-> 0, created_at |-> clock + i - 1,
                     search_vector |-> NoVector]
             r == InsertInto(tbl, f, id, row)
         IN  seed_items(r.items, r.fts, i + 1, n)

seed_database(n) ==
    /\ DOMAIN items = {}
    /\ seq = 0
    /\ n <= (IF backend = "postgres" THEN MaxSeedPg ELSE MaxSeed)
    /\ LET r == seed_items(items, fts, 1, n)
       IN  /\ items' = r.items
           /\ fts' = IF backend = "postgres" THEN r.fts ELSE RebuildFts(r.fts, r.items).fts
    /\ seq' = IF backend = "postgres" THEN n ELSE seq
    /\ clock' = clock + n
    /\ last' = [op |-> "seed_database", ok |-> TRUE]
    /\ UNCHANGED <<backend, raw, norm, ncalls, auxvars>>

\* ------------------------------------------------------------ search router
\* The tags table: empty until the catalog is seeded
TagTable == IF DOMAIN items = {} THEN {} ELSE TAGS

\* The largest limit the endpoint accepts (le=100)
FullLimit == 100

\* str.isdigit and int() on the decimal digits
DigitValue == [c \in {"0", "1", "2"} |-> IF c = "0" THEN 0 ELSE IF c = "1" THEN 1 ELSE 2]
isdigit(c) == c # <<>> /\ \A i \in 1..Len(c) : c[i] \in DOMAIN DigitValue
RECURSIVE int(_)
int(c) == IF c = <<>> THEN 0 ELSE 10 * int(SubSeq(c, 1, Len(c) - 1)) + DigitValue[c[Len(c)]]

\* type: the comma-separated parts of the parameter, stripped ("" is a
\* blank part); category and tags: the parameter as typed, or None
TypeFilters(type) == SeqToSet(type) \ {""}
CategoryFilters(category) ==
    IF category = None THEN {}
    ELSE {int(Strip(c)) : c \in {p \in SeqToSet(SplitOn(category, ",", <<>>)) : isdigit(Strip(p))}}
TagFilters(tags) ==
    IF tags = None THEN {}
    ELSE {SeqMap(FoldCase, Strip(t)) : t \in SeqToSet(SplitOn(tags, ",", <<>>))} \ {<<>>}

\* name ILIKE '%t%'
ilike(name, t) ==
    LET n == SeqMap(FoldCase, name)
        u == SeqMap(FoldCase, t)
    IN  \E i \in 0..(Len(n) - Len(u)) : SubSeq(n, i + 1, i + Len(u)) = u

TagObjs(tag_filters) == {name \in TagTable : \E t \in tag_filters : ilike(name, t)}

\* The filters of the request on the row id
Filtered(id, type, category, tags) ==
    /\ id \in DOMAIN items
    /\ TypeFilters(type) # {} => items[id].type \in TypeFilters(type)
    /\ CategoryFilters(category) # {} => items[id].category_id \in CategoryFilters(category)
    /\ TagFilters(tags) # {} => items[id].tags \cap TagObjs(TagFilters(tags)) # {}

\* The sort key when every mode orders by created_at
SortKey_created_at_only(sort, id) == items[id].created_at

\* ORDER BY created_at DESC / view_count DESC: the sort key of row id
SortKey(sort, id) == IF sort = "views" THEN items[id].view_count ELSE items[id].created_at
SortBefore(a, b) == a.key > b.key

\* bool(q) without the strip
has_query_unstripped(q) == q # <<>>

\* has_query = bool(q and q.strip())
has_query(q) == q # <<>> /\ Strip(q) # <<>>

\* The kept rows by their position in item_ids, last position first
order_cases_desc(item_ids, kept) ==
    LET asc == SelectSeq(item_ids, LAMBDA id : id \in kept)
    IN  [i \in 1..Len(asc) |-> asc[Len(asc) + 1 - i]]

\* query.order_by(order_cases): the kept rows by their position in item_ids
order_cases(item_ids, kept) == SelectSeq(item_ids, LAMBDA id : id \in kept)

\* An early return that skips the log call
EmptyResponse_unlogged == [ok |-> TRUE, data |-> <<>>, total |-> 0, logs |-> <<>>]

\* The early returns of the handler (no text match, no tag matching the
\* tag filter): log_search(query=q, result_count=0), then data [], total 0
EmptyResponse == [ok |-> TRUE, data |-> <<>>, total |-> 0, logs |-> <<0>>]

\* An exception swallowed by the handler: the empty success response
RaisedAsEmpty == [ok |-> TRUE, data |-> <<>>, total |-> 0, logs |-> <<0>>]

\* An exception of SearchService.search leaves the handler, which has no
\* try around the call: the request ends as a 500 and logs nothing
Raised == [ok |-> FALSE, data |-> <<>>, total |-> 0, logs |-> <<>>]

\* GET /api/search: the responses one request may get.  logs holds the
\* result_count handed to SearchLoggingService.log_search; ok = FALSE is
\* the 500 of an exception SearchService.search let through.
api_search(q, type, category, tags, sort, page, limit) ==
    LET offset == (page - 1) * limit
        tag_filters == TagFilters(tags)
        Keep(id) == Filtered(id, type, category, tags)
        Empty == EmptyResponse
        Error == Raised
        NoSearch == [ok |-> TRUE, ids |-> <<>>, total |-> 0, queries |-> 0]
    IN  IF has_query(q) /\ sort = "relevance"
        THEN UNION {
               IF ~r.ok THEN {Error}
               ELSE IF r.ids = <<>> THEN {Empty}
               ELSE IF tag_filters # {} /\ TagObjs(tag_filters) = {} THEN {Empty}
               ELSE LET kept == {id \in SeqToSet(r.ids) : Keep(id)}
                    IN  {[ok |-> TRUE,
                          data |-> Window(order_cases(r.ids, kept), limit, offset),
                          total |-> Cardinality(kept), logs |-> <<Cardinality(kept)>>]}
               : r \in search(q, DefaultLimit, 0)}
        ELSE UNION {
               IF ~r.ok THEN {Error}
               ELSE IF has_query(q) /\ r.ids = <<>> THEN {Empty}
               ELSE IF tag_filters # {} /\ TagObjs(tag_filters) = {} THEN {Empty}
               ELSE LET base == IF has_query(q) THEN SeqToSet(r.ids) ELSE DOMAIN items
                        kept == {id \in base : Keep(id)}
                    IN  {[ok |-> TRUE, data |-> Window(rows, limit, offset),
                          total |-> Cardinality(kept), logs |-> <<Cardinality(kept)>>] :
                           rows \in Orders({[id |-> id, key |-> SortKey(sort, id)] : id \in kept},
                                           SortBefore, backend # "postgres")}
               : r \in IF has_query(q) THEN search(q, DefaultLimit, 0) ELSE {NoSearch}}

\* The search_logs row of one log write
MaxLogs == 1
SearchLog(query, result_count) ==
    [query |-> query, result_count |-> result_count, source |-> "web"]

\* A log write made on the request path: the caller waits for the commit
\* and gets the exception of a failed one
log_search_waits(query, result_count) ==
    {[raised |-> TRUE, thread |-> "rolled_back", search_logs |-> search_logs]} \cup
    IF Len(search_logs) < MaxLogs
    THEN {[raised |-> FALSE, thread |-> "committed",
           search_logs |-> Append(search_logs, SearchLog(query, result_count))]}
    ELSE {}

\* SearchLoggingService.log_search: starts a daemon thread that runs
\* _log_search_sync and returns at once
log_search(query, result_count) ==
    {[raised |-> FALSE, thread |-> "started", search_logs |-> search_logs]}

\* A client of the endpoint.  thread is the state of the log thread the
\* request started ("none" when it started none), returned is what that
\* state was when the handler returned.
SearchRequest(q, type, category, tags, sort, page, limit) ==
    /\ \E r \in api_search(q, type, category, tags, sort, page, limit) :
       \E l \in (IF r.logs = <<>>
                 THEN {[raised |-> FALSE, thread |-> "none", search_logs |-> search_logs]}
                 ELSE log_search(q, r.logs[1])) :
          /\ last' = [op |-> "api_search", ok |-> r.ok /\ ~l.raised, q |-> q, type |-> type,
                      category |-> category, tags |-> tags, sort |-> sort, page |-> page,
                      limit |-> limit,
                      data |-> IF l.raised THEN <<>> ELSE r.data,
                      total |-> IF l.raised THEN 0 ELSE r.total,
                      logs |-> r.logs, thread |-> l.thread, returned |-> l.thread]
          /\ search_logs' = l.search_logs
    /\ UNCHANGED <<dbvars, raw, norm, ncalls, sess>>

\* SearchLoggingService._log_search_sync in the thread of the last request,
\* on a session of its own: the row is committed, or the write fails and is
\* rolled back; the exception stays in the thread.
_log_search_sync ==
    /\ last.op = "api_search" /\ last.thread = "started"
    /\ \/ /\ Len(search_logs) < MaxLogs
          /\ search_logs' = Append(search_logs, SearchLog(last.q, last.logs[1]))
          /\ last' = [last EXCEPT !.thread = "committed"]
       \/ /\ search_logs' = search_logs
          /\ last' = [last EXCEPT !.thread = "rolled_back"]
    /\ UNCHANGED <<dbvars, raw, norm, ncalls, sess>>

\* A client that reads a result page by page: first everything in one
\* fetch (full), then the pages of limit rows until total is covered (acc).
\* target is "service" for SearchService.search, "endpoint" for /api/search.
Fetch(target, query, sort, limit, offset) ==
    IF target = "service"
    THEN {[ok |-> r.ok, ids |-> r.ids, total |-> r.total] : r \in search(query, limit, offset)}
    ELSE {[ok |-> r.ok, ids |-> r.data, total |-> r.total] :
            r \in api_search(query, <<>>, None, None, sort, (offset \div limit) + 1, limit)}

StartPages(target, query, sort, limit) ==
    /\ \E r \in Fetch(target, query, sort, FullLimit, 0) :
          last' = [op |-> "pages", ok |-> r.ok, target |-> target, query |-> query,
                   sort |-> sort, limit |-> limit, offset |-> 0, acc |-> <<>>,
                   full |-> r.ids, total |-> r.total, done |-> ~r.ok]
    /\ UNCHANGED <<dbvars, raw, norm, ncalls, auxvars>>

NextPage ==
    /\ last.op = "pages"
    /\ ~last.done
    /\ \E r \in Fetch(last.target, last.query, last.sort, last.limit, last.offset) :
          last' = [last EXCEPT !.ok = r.ok,
                               !.acc = @ \o r.ids,
                               !.offset = @ + last.limit,
                               !.done = ~r.ok \/ last.offset + last.limit >= last.total]
    /\ UNCHANGED <<dbvars, raw, norm, ncalls, auxvars>>

\* --------------------------------------------------------- specifications
Crud ==
    \/ \E txt \in TextPool : create_item(txt, "agent", NoCategory, {})
    \/ \E id \in Ids, d \in UpdatePool : update_item(id, d)
    \/ \E id \in Ids : delete_item(id)
    \/ \E id \in Ids : increment_view_count(id)

\* The caller of the normalizers hands them the raw query
Normalize ==
    /\ last.op = "none"
    /\ norm' = [sqlite |-> _prepare_query_sqlite(raw), postgres |-> _prepare_query_postgres(raw)]
    /\ last' = [op |-> "normalize", ok |-> TRUE]
    /\ UNCHANGED <<dbvars, raw, ncalls, auxvars>>

InitNorm ==
    /\ InitDb
    /\ last = Idle
    /\ raw \in RawQueries
    /\ norm = [sqlite |-> None, postgres |-> None]
    /\ ncalls = 0
    /\ search_logs = <<>>
    /\ sess = [s \in Sessions |-> Ready]

\* The two normalizers on every raw query of up to MaxRawLen characters
SpecNorm == InitNorm /\ [][Normalize]_vars

\* Item requests only: create, update, delete, view
SpecCrud == Init /\ [][Crud]_vars

QueryPool == {<<"a">>, <<"b", " ", "a">>, <<"!">>}

Maintenance ==
    \/ reset_database
    \/ rebuild_fts_index
    \/ rebuild_index

Searches == \E q \in QueryPool : SearchCall(q, DefaultLimit, 0)

\* Item requests, reset and rebuilds, and searches
SpecMaint == Init /\ [][Crud \/ Maintenance \/ Searches]_vars

IndexCalls ==
    \/ \E id \in Ids, txt \in TextPool : index_item(id, txt)
    \/ \E id \in Ids : remove_from_index(id)

Next ==
    \/ \E txt \in TextPool : create_item(txt, "agent", NoCategory, {})
    \/ \E id \in Ids : delete_item(id)
    \/ IndexCalls
    \/ rebuild_index
    \/ rebuild_fts_index
    \/ Searches

\* Direct calls of the index maintenance functions between item requests,
\* rebuilds and searches
Spec == Init /\ [][Next]_vars

\* Search requests on every return path of the handler, and their log threads
LogRequests ==
    \E q \in {<<>>, <<"b">>, <<"!">>}, tags \in {None, <<"!">>}, sort \in {"relevance", "date"} :
        SearchRequest(q, <<>>, None, tags, sort, 1, 2)

\* Items created, the catalog reset, search requests and the log writes
\* their threads make
SpecLog ==
    Init /\ [][\/ \E txt \in TextPool : create_item(txt, "agent", NoCategory, {})
               \/ reset_database
               \/ LogRequests
               \/ _log_search_sync]_vars

\* Search requests on both paths of the handler that call the service
FailRequests ==
    \E q \in {<<"a">>, <<"b">>}, sort \in {"relevance", "date"} :
        SearchRequest(q, <<>>, None, None, sort, 1, 2)

\* Searches and search requests over an index that direct index calls have
\* changed
SpecFail ==
    Init /\ [][\/ \E txt \in TextPool : create_item(txt, "agent", NoCategory, {})
               \/ IndexCalls
               \/ Searches
               \/ FailRequests]_vars

\* View requests of several clients at a time on the items of a catalog
SpecViews ==
    Init /\ [][\/ \E txt \in TextPool : create_item(txt, "agent", NoCategory, {})
               \/ \E s \in Sessions, id \in Ids : increment_view_count_query(s, id)
               \/ \E s \in Sessions : increment_view_count_commit(s)]_vars

\* Searches of one client, query by query, while other clients create,
\* update and delete items
SpecRace ==
    Init /\ [][\/ \E txt \in TextPool : create_item(txt, "agent", NoCategory, {})
               \/ \E id \in Ids, d \in UpdatePool : update_item(id, d)
               \/ \E id \in Ids : delete_item(id)
               \/ \E q \in {<<"a">>, <<"b">>}, limit \in {1, DefaultLimit} :
                      search_count(1, q, limit, 0)
               \/ search_fetch(1)]_vars

\* Rebuilds, some of them ended by a backend error, of an index that item
\* requests and direct index calls have written
SpecRebuild ==
    Init /\ [][\/ \E txt \in TextPool : create_item(txt, "agent", NoCategory, {})
               \/ IndexCalls
               \/ rebuild_index
               \/ rebuild_fts_index
               \/ \E fn \in {"rebuild_index", "rebuild_fts_index"}, n \in 0..MaxItems :
                      rebuild_interrupted(fn, n)]_vars

\* Restarts of the application over an index that item requests and direct
\* index calls have written
SpecStartup ==
    Init /\ [][\/ \E txt \in TextPool : create_item(txt, "agent", NoCategory, {})
               \/ \E id \in Ids : delete_item(id)
               \/ IndexCalls
               \/ startup_event]_vars

SearchQueries == {<<"b">>, <<"b", " ", "a">>, <<"b", "!", "a">>, <<"!">>, <<" ">>}
Limits == {2, DefaultLimit}
FilterPool ==
    {[type |-> <<>>, category |-> None, tags |-> None],
     [type |-> <<"prompt">>, category |-> None, tags |-> None],
     [type |-> <<"agent", "">>, category |-> <<"1", ",", "!">>, tags |-> <<"A", ",", " ">>],
     [type |-> <<>>, category |-> None, tags |-> <<"!">>]}
Sorts == {"relevance", "date", "views"}

ServiceCalls ==
    \E q \in SearchQueries, limit \in Limits, offset \in {0, MaxSeed + 1} :
        SearchCall(q, limit, offset)

Requests ==
    \E q \in {<<>>, <<"b">>, <<"!">>}, f \in FilterPool, sort \in Sorts, page \in 1..2 :
        SearchRequest(q, f.type, f.category, f.tags, sort, page, 2)

Pages ==
    \/ \E q \in {<<"b">>, <<"a">>} : StartPages("service", q, "relevance", 2)
    \/ \E q \in {<<>>, <<"b">>}, sort \in Sorts : StartPages("endpoint", q, sort, 2)
    \/ NextPage

Seeding == \E n \in (1..MaxSeedPg) \cup {MaxSeed} : seed_database(n)

\* A seeded catalog and its readers: calls of SearchService.search,
\* requests to /api/search, page-by-page clients
SpecSearch == Init /\ [][Seeding \/ ServiceCalls \/ Requests \/ Pages]_vars

Listings ==
    \E q \in {<<>>, <<" ">>, <<"b">>}, sort \in Sorts, page \in 1..2 :
        SearchRequest(q, <<>>, None, None, sort, page, 2)

\* Items created and viewed, and listed through /api/search
SpecBrowse ==
    Init /\ [][\/ \E txt \in TextPool : create_item(txt, "agent", NoCategory, {})
               \/ \E id \in Ids : increment_view_count(id)
               \/ Listings]_vars

\* ------------------------------------------------------------- properties
\* The index holds exactly the title/description/content projection of the
\* items table: one entry per live item, built from its current text, and
\* nothing else.
InSync ==
    IF backend = "postgres"
    THEN \A id \in DOMAIN items : items[id].search_vector = to_tsvector(TextOf(items[id]))
    ELSE /\ DOMAIN fts.docsize = DOMAIN items
         /\ DOMAIN fts.postings =
                UNION {{<<id, t>> : t \in TextTerms(TextOf(items[id]))} : id \in DOMAIN items}
         /\ \A k \in DOMAIN fts.postings : fts.postings[k] = TermPositions(TextOf(items[k[1]]), k[2])
         /\ \A id \in DOMAIN items : fts.docsize[id] = ColSize(TextOf(items[id]))
         /\ fts.nTotalRow = Cardinality(DOMAIN items)
         /\ \A c \in ColSet :
                fts.aTotalSize[c] = SumOver([id \in DOMAIN items |-> ColSize(TextOf(items[id]))[c]], DOMAIN items)

\* C1: after any sequence of committed item create, update and delete
\* requests the index holds exactly one entry for every live item, none for
\* a deleted item, and every entry is built from the item's current
\* title, description and content.
C1_IndexFollowsItems == InSync

\* An item was updated, another one deleted, and the SQLite index follows.
C1_Witness ==
    /\ backend = "sqlite"
    /\ last.op = "delete_item" /\ last.ok
    /\ \E id \in DOMAIN items : items[id].title = <<"A">> /\ <<id, <<"a">> >> \in DOMAIN fts.postings

\* C2: after item requests, resets and rebuilds, every id a search returns
\* is the id of an item in the items table at the time of the search.
C2_SearchReturnsLiveIds ==
    (last.op = "search" /\ last.ok) => \A i \in 1..Len(last.ids) : last.ids[i] \in DOMAIN items

\* A search that finds the one item left after another one was deleted.
C2_Witness ==
    /\ last.op = "search" /\ last.ok
    /\ clock = 2 /\ Cardinality(DOMAIN items) = 1
    /\ Len(last.ids) = 1

\* C3: from any index content, one successful rebuild_index leaves the
\* index equal to the projection of the current items table.
C3_RebuildRestoresIndex ==
    (last.op = "rebuild_index" /\ last.ok) => InSync

\* C4: for a static items table a second rebuild_index in succession
\* changes nothing: it ends as the first did and leaves the same index.
C4_RebuildIdempotent ==
    last.op = "rebuild_index" =>
        IF backend = "postgres"
        THEN [i \in DOMAIN items |-> items_search_vector_update(items[i])] = items
        ELSE RebuildFts(fts, items) = [ok |-> last.ok, fts |-> fts]

\* A successful rebuild of a non-empty SQLite table whose index had drifted.
C4_Witness ==
    /\ backend = "sqlite"
    /\ last.op = "rebuild_index" /\ last.ok
    /\ DOMAIN items # {}
    /\ ~InSync

\* The ids whose index entry matches the normalized text query
TextMatches(query) ==
    IF backend = "postgres"
    THEN LET c == _prepare_query_postgres(query)
         IN  IF c = None THEN {} ELSE PgMatch(items, c)
    ELSE LET c == _prepare_query_sqlite(query)
         IN  IF c = None THEN {} ELSE Fts5Match(fts, c)

\* The live items that match the text query, if any, and every filter
MatchingItems(q, type, category, tags) ==
    {id \in DOMAIN items :
        /\ Strip(q) # <<>> => id \in TextMatches(q)
        /\ Filtered(id, type, category, tags)}

\* C5 as stated: the total of every /api/search response is the number of
\* live items that match the text query and all filters, whatever the page
\* and the limit, in relevance and in non-relevance sort modes.
C5_TotalCountsEveryMatch ==
    (last.op = "api_search" /\ last.ok) =>
        last.total = Cardinality(MatchingItems(last.q, last.type, last.category, last.tags))

\* C6: for a fixed data set, query, sort mode and limit the pages 1, 2,
\* 3, ... of /api/search are pairwise disjoint and put together they hold
\* every item counted in total exactly once.  (C6 further fixes the
\* position of every item; a violation of this part violates C6.)
C6_EndpointPagesPartitionResult ==
    (last.op = "pages" /\ last.target = "endpoint" /\ last.ok /\ last.done) =>
        /\ \A i, j \in 1..Len(last.acc) : last.acc[i] = last.acc[j] => i = j
        /\ Len(last.acc) = last.total
        /\ SeqToSet(last.acc) = SeqToSet(last.full)

\* C7: for a query matching N > limit index entries the id lists of
\* SearchService.search for offset 0, limit, 2*limit, ... put together hold
\* the ids of one fetch with limit >= N and offset 0 without duplicates or
\* omissions.  (C7 further asks for the same order; a violation of this
\* part violates C7.)
C7_ServicePagesEqualOneFetch ==
    (last.op = "pages" /\ last.target = "service" /\ last.ok /\ last.done
        /\ last.total > last.limit) =>
        /\ \A i, j \in 1..Len(last.acc) : last.acc[i] = last.acc[j] => i = j
        /\ SeqToSet(last.acc) = SeqToSet(last.full)

\* C8: the total returned by SearchService.search is the number of index
\* entries matching the normalized query, for every limit and offset, also
\* for an offset past the last match.
C8_TotalCountsAllMatches ==
    (last.op = "search" /\ last.ok) => last.total = Cardinality(TextMatches(last.query))

\* C8: a search whose offset lies past the last of more matches than one
\* page holds: no ids, and still the full total
C8_Witness ==
    /\ last.op = "search" /\ last.ok
    /\ last.total > last.limit
    /\ last.offset >= last.total
    /\ last.ids = <<>>

\* The same entity texts under the other engine: the FTS5 index of the
\* rows, and the rows with their search_vector
SqliteIndexOfItems == IF backend = "sqlite" THEN fts ELSE IndexOf(items, DOMAIN items)
PostgresItems ==
    IF backend = "postgres" THEN items
    ELSE [id \in DOMAIN items |-> items_search_vector_update(items[id])]

\* C11: for every raw query that both normalizers turn into a query, the
\* embedded-engine variant and the relational-engine variant select the
\* same set of matching ids over the same entity texts, and the total a
\* search returns is the size of that set.  (C11 further says that both
\* normalizers return None for the same inputs.)
C11_BackendsSelectSameIds ==
    (last.op = "search" /\ last.ok) =>
        LET s == _prepare_query_sqlite(last.query)
            p == _prepare_query_postgres(last.query)
        IN  (Strip(last.query) # <<>> /\ s # None /\ p # None) =>
                /\ Fts5Match(SqliteIndexOfItems, s) = PgMatch(PostgresItems, p)
                /\ last.total = Cardinality(PgMatch(PostgresItems, p))

\* C12: SearchService.search issues no backend query for an empty or
\* whitespace-only raw query, and only the count query when the count is
\* zero, and returns ([], 0) in both cases; the ranked fetch is issued only
\* after a count query of the same call that returned a positive count.
C12_QueriesIssued ==
    last.op = "search" =>
        LET cleaned_query == IF backend = "postgres" THEN _prepare_query_postgres(last.query)
                             ELSE _prepare_query_sqlite(last.query)
            count == Cardinality(TextMatches(last.query))
        IN  /\ Strip(last.query) = <<>> =>
                last.queries = 0 /\ last.ok /\ last.ids = <<>> /\ last.total = 0
            /\ (Strip(last.query) # <<>> /\ cleaned_query # None /\ count = 0) =>
                last.queries = 1 /\ last.ok /\ last.ids = <<>> /\ last.total = 0
            /\ last.queries = 2 => count > 0

\* C12: a search of a non-empty catalog that no entry matches: the count
\* query only
C12_Witness ==
    /\ last.op = "search" /\ last.ok
    /\ DOMAIN items # {}
    /\ Strip(last.query) # <<>>
    /\ last.queries = 1
    /\ last.ids = <<>> /\ last.total = 0

\* The terms of the text txt that no index entry other than that of id holds
UniqueTerms(id, txt) ==
    {t \in TextTerms(txt) :
        IF backend = "postgres"
        THEN \A j \in DOMAIN items \ {id} : t \notin DOMAIN items[j].search_vector
        ELSE \A k \in DOMAIN fts.postings : k[2] = t => k[1] = id}

\* A search for the one-word query t returns the id with a total of 1
FoundAlone(id, t) ==
    \A r \in search(t, DefaultLimit, 0) : r.ok /\ r.total = 1 /\ r.ids = <<id>>

\* C13 as stated: after index_item(e.id, e.title, e.description, e.content)
\* for an entity e, a search for a term that occurs only in e's text
\* returns e.id with total 1, whatever else the index holds.
C13_IndexedItemIsFound ==
    (/\ last.op = "index_item"
     /\ last.item_id \in DOMAIN items
     /\ TextOf(items[last.item_id]) = last.txt) =>
        /\ last.ok
        /\ \A t \in UniqueTerms(last.item_id, last.txt) : FoundAlone(last.item_id, t)

\* A search for the one-word query t returns ([], 0)
NothingFound(t) ==
    \A r \in search(t, DefaultLimit, 0) : r.ok /\ r.ids = <<>> /\ r.total = 0

\* C14 as stated: after remove_from_index(id), and after the item with that
\* id was deleted through the items router, every search for a term that
\* occurred only in that entity's text returns ([], 0).
C14_RemovedItemNotFound ==
    (last.op \in {"remove_from_index", "delete_item"} /\ last.ok) =>
        \A t \in last.terms : NothingFound(t)

\* C15 as stated (second half): a remove_from_index(id) that repeats the
\* call before it succeeds without error and leaves the index as the first
\* call left it.  After the first call the index holds no entry for id, so
\* this is also a call for an id the index holds no entry for.
C15_RemoveTwiceIsRemoveOnce ==
    (last.op = "remove_from_index" /\ last.again) => (last.ok /\ last.same)

\* C16: in relevance mode, with or without type/category/tag filters, the
\* items of a returned page come in the order in which their ids stand in
\* the ranked id list of SearchService.search: of two returned items the
\* first has the smaller rank position.
C16_PageKeepsRankOrder ==
    (last.op = "api_search" /\ last.ok /\ Strip(last.q) # <<>> /\ last.sort = "relevance") =>
        \E r \in search(last.q, DefaultLimit, 0) :
            /\ r.ok
            /\ \A i \in 1..Len(last.data) : last.data[i] \in SeqToSet(r.ids)
            /\ \A i, j \in 1..Len(last.data) :
                   i < j => \E a, b \in 1..Len(r.ids) :
                               a < b /\ r.ids[a] = last.data[i] /\ r.ids[b] = last.data[j]

\* C16: a page of a filtered relevance search on which the better ranked
\* item has the larger id
C16_Witness ==
    /\ last.op = "api_search" /\ last.ok
    /\ Strip(last.q) # <<>> /\ last.sort = "relevance"
    /\ TypeFilters(last.type) # {}
    /\ last.total < Cardinality(TextMatches(last.q))
    /\ Len(last.data) = 2 /\ last.data[1] > last.data[2]

\* C17: when sort is date or views, or the query text is empty, a returned
\* page is ordered by view_count descending in views mode and by created_at
\* descending otherwise: from one item to the next the key never increases.
C17_ListingIsSorted ==
    (last.op = "api_search" /\ last.ok
        /\ (last.sort \in {"date", "views"} \/ Strip(last.q) = <<>>)) =>
        \A i \in 1..(Len(last.data) - 1) :
            IF last.sort = "views"
            THEN items[last.data[i]].view_count >= items[last.data[i + 1]].view_count
            ELSE items[last.data[i]].created_at >= items[last.data[i + 1]].created_at

\* C17: a views page on which the more viewed item is the older one
C17_Witness ==
    /\ last.op = "api_search" /\ last.ok /\ last.sort = "views"
    /\ Len(last.data) = 2
    /\ items[last.data[1]].view_count > items[last.data[2]].view_count
    /\ items[last.data[1]].created_at < items[last.data[2]].created_at

\* C18 as stated: every item the search endpoint returns satisfies every
\* supplied filter at once: its type is one of the requested types, its
\* category_id one of the requested category ids, and it carries a tag
\* whose name is one of the requested tag names (whatever the case).
C18_ReturnedItemsPassFilters ==
    (last.op = "api_search" /\ last.ok) =>
        \A i \in 1..Len(last.data) :
            LET item == items[last.data[i]]
            IN  /\ TypeFilters(last.type) # {} => item.type \in TypeFilters(last.type)
                /\ CategoryFilters(last.category) # {} =>
                       item.category_id \in CategoryFilters(last.category)
                /\ TagFilters(last.tags) # {} =>
                       \E name \in item.tags : SeqMap(FoldCase, name) \in TagFilters(last.tags)

\* C19: with an empty or whitespace-only q and no filters the search
\* endpoint lists every live item: total is the number of rows of the
\* items table and the page is the window of that many, for every sort
\* mode; with an empty items table the data are [] and the total 0.
C19_EmptyQueryListsAll ==
    (last.op = "api_search" /\ Strip(last.q) = <<>> /\ TypeFilters(last.type) = {}
        /\ CategoryFilters(last.category) = {} /\ TagFilters(last.tags) = {}) =>
        /\ last.ok
        /\ last.total = Cardinality(DOMAIN items)
        /\ SeqToSet(last.data) \subseteq DOMAIN items
        /\ LET rest == last.total - (last.page - 1) * last.limit
           IN  Len(last.data) = IF rest < 0 THEN 0 ELSE Min(rest, last.limit)

\* C19: a whitespace-only q in relevance mode that lists both items
C19_Witness ==
    /\ last.op = "api_search" /\ last.ok
    /\ last.q = <<" ">> /\ last.sort = "relevance"
    /\ last.total = 2 /\ Len(last.data) = 2

\* C20: a failure of the index write during item create, update or delete
\* does not abort the item write: the request succeeds and the change is
\* in the items table (a deleted item is gone).
C20_IndexFailureKeepsItemWrite ==
    /\ last.op \in {"create_item", "update_item", "delete_item"} => last.ok
    /\ last.op = "delete_item" => last.item_id \notin DOMAIN items

\* C21: whenever a rebuild (rebuild_index, or rebuild_fts_index as the seed
\* endpoint calls it) returns normally to its caller the index is fully
\* consistent with the items table; a rebuild that did not achieve this
\* ends as a failure.
C21_ReturnedRebuildIsConsistent ==
    (last.op \in {"rebuild_index", "rebuild_fts_index"} /\ ~InSync) => ~last.ok

\* C22: the outcome of a search request (status, data, total) is the same
\* whether its log write succeeds, fails or never runs: it is a response
\* the handler gives for the request on the items and index as they are,
\* a failed log write raises nothing into the handler, and when the
\* handler returned the log write had not been waited for.
C22_LogWriteNeverReachesResponse ==
    last.op = "api_search" =>
        /\ \E r \in api_search(last.q, last.type, last.category, last.tags,
                                last.sort, last.page, last.limit) :
               r.ok = last.ok /\ r.data = last.data /\ r.total = last.total
        /\ last.returned \in {"started", "none"}

\* C22: a successful request with results whose log write failed later
C22_Witness ==
    /\ last.op = "api_search" /\ last.ok /\ last.total > 0
    /\ last.returned = "started" /\ last.thread = "rolled_back"

\* C23: when a backend query raises during SearchService.search the error
\* leaves search and the request handler: the call issued each query once
\* and returned no ids, and the request ends as an error with no data, not
\* as an empty success.
C23_SearchErrorPropagates ==
    /\ (last.op = "search" /\ ~last.ok) =>
            last.ids = <<>> /\ last.total = 0 /\ last.queries <= 2
    /\ (last.op = "api_search" /\ has_query(last.q)
            /\ \E r \in search(last.q, DefaultLimit, 0) : ~r.ok) =>
            ~last.ok /\ last.data = <<>> /\ last.logs = <<>>

\* C23: a search request whose ranked fetch raised
C23_Witness ==
    /\ last.op = "api_search" /\ has_query(last.q) /\ ~last.ok
    /\ \A r \in search(last.q, DefaultLimit, 0) : ~r.ok /\ r.queries = 2

\* C24: every successful view request increases the item's view_count by
\* exactly one and returns the new value: with the items created at zero,
\* the view_count of an item is the number of view requests on it that
\* succeeded, whether they ran one after the other or at the same time,
\* and each returned the loaded value plus one.
C24_NoViewLost ==
    /\ \A id \in DOMAIN items :
           items[id].view_count =
               Cardinality({s \in Sessions : sess[s].pc = "viewed" /\ sess[s].item_id = id})
    /\ \A s \in Sessions :
           sess[s].pc = "viewed" => sess[s].data = sess[s].view_count + 1

\* C29: within one SearchService.search call the returned id list and the
\* returned total describe the same index state, also when an index write
\* of another session commits between the count query and the ranked
\* fetch: the id list never has more elements than total, and a result
\* with total > 0, offset 0 and limit >= 1 never has an empty id list.
C29_IdsAndTotalAgree ==
    \A s \in Sessions :
        (sess[s].pc = "searched" /\ sess[s].ok) =>
            /\ Len(sess[s].ids) <= sess[s].total
            /\ (sess[s].total > 0 /\ sess[s].offset = 0 /\ sess[s].limit >= 1) =>
                   sess[s].ids # <<>>

\* The live items whose current text holds the term t
LiveMatches(t) ==
    {id \in DOMAIN items :
        IF backend = "postgres" THEN t \in DOMAIN to_tsvector(TextOf(items[id]))
        ELSE t \in TextTerms(TextOf(items[id]))}

\* C25: on the create, update and delete paths the item change and the
\* index change become visible together: whenever a query of a search in
\* another session runs, the index matches a term for exactly the
\* committed items whose current text holds it, so no committed item lacks
\* its entry or has an entry of older text, and no entry is left of an item
\* whose deletion has committed.
C25_WritesVisibleAtomically ==
    \A t \in {<<"a">>, <<"b">>} : TextMatches(t) = LiveMatches(t)

\* C25: an update of a title has committed between the count query and the
\* ranked fetch of a search in another session
C25_Witness ==
    /\ sess[1].pc = "counted"
    /\ last.op = "update_item" /\ last.ok
    /\ \E id \in DOMAIN items : items[id].title = <<"A">>

\* The index entry of id in the FTS5 index f: its postings and its size row
EntryOf(f, id) ==
    [postings |-> [k \in {x \in DOMAIN f.postings : x[1] = id} |-> f.postings[k]],
     docsize |-> IF id \in DOMAIN f.docsize THEN <<f.docsize[id]>> ELSE <<>>]

\* C26: after index_item(id, new text) on an id that already has an index
\* entry the index holds exactly one entry for id, built from the new text
\* alone (no term of the old text is left in it), and in no reachable
\* state does the index hold two entries for the same id.
C26_ReindexReplacesEntry ==
    /\ (last.op = "index_item" /\ last.had) =>
           /\ last.ok
           /\ IF backend = "postgres"
              THEN items[last.item_id].search_vector = to_tsvector(last.txt)
              ELSE EntryOf(fts, last.item_id) =
                       EntryOf(Fts5Insert(EmptyFts, last.item_id, last.txt), last.item_id)
    /\ backend = "sqlite" => fts.nTotalRow = Cardinality(DOMAIN fts.docsize)

C28_OneLogPerResponse ==
    (last.op = "api_search" /\ last.ok) =>
        /\ Len(last.logs) = 1
        /\ last.logs[1] = last.total
        /\ last.thread # "none"
        /\ last.thread = "committed" =>
               /\ search_logs # <<>>
               /\ search_logs[Len(search_logs)] = SearchLog(last.q, last.total)

\* C28: the log write of a request that returned early because no tag
\* matches the tag filter, over a non-empty catalog
C28_Witness ==
    /\ last.op = "api_search" /\ last.ok
    /\ DOMAIN items # {} /\ TagFilters(last.tags) # {} /\ TagObjs(TagFilters(last.tags)) = {}
    /\ last.logs = <<0>> /\ last.thread = "committed"

\* C30: after startup_event on the SQLite backend the index holds exactly
\* the title/description/content projection of the items table, whatever
\* it held before startup, also when the items table is empty.
C30_StartupRebuildsIndex ==
    (last.op = "startup_event" /\ backend = "sqlite") => fts = IndexOf(items, DOMAIN items)

OnlyWhitespace(s) == \A i \in 1..Len(s) : s[i] \in Whitespace
OnlyPunctOrWhitespace(s) == \A i \in 1..Len(s) : s[i] \in Punct \cup Whitespace

\* C9 as stated: for every raw query made only of punctuation and
\* whitespace both normalizers return None.
C9_PunctuationGivesNone ==
    (last.op = "normalize" /\ OnlyPunctOrWhitespace(raw)) =>
        (norm.sqlite = None /\ norm.postgres = None)

\* C9 as amended: for such a query _prepare_query_postgres returns None;
\* _prepare_query_sqlite returns None exactly when the query holds nothing
\* but whitespace, and the quoted punctuation terms otherwise.
C9_PunctuationGivesNonePostgres ==
    (last.op = "normalize" /\ OnlyPunctOrWhitespace(raw)) =>
        /\ norm.postgres = None
        /\ (norm.sqlite = None) <=> OnlyWhitespace(raw)

\* A query of punctuation and whitespace on which the two variants differ.
C9_Witness ==
    /\ last.op = "normalize"
    /\ raw = <<"!", " ", Quote>>
    /\ norm.postgres = None
    /\ norm.sqlite # None

\* The terms of a string that is one or more double-quoted terms separated
\* by exactly one space, every quote inside a term doubled
RECURSIVE QuotedTerms(_)
QuotedTerms(s) ==
    IF s = <<>> \/ Head(s) # Quote THEN [ok |-> FALSE, terms |-> <<>>]
    ELSE LET r == ReadString(Tail(s), <<>>)
         IN  IF ~r[1] THEN [ok |-> FALSE, terms |-> <<>>]
             ELSE IF r[3] = <<>> THEN [ok |-> TRUE, terms |-> <<r[2]>>]
             ELSE IF Head(r[3]) # " " THEN [ok |-> FALSE, terms |-> <<>>]
             ELSE LET more == QuotedTerms(Tail(r[3]))
                  IN  [ok |-> more.ok, terms |-> <<r[2]>> \o more.terms]

\* s is one or more non-empty alphanumeric terms separated by " & "
RECURSIVE AndOfAlnumTerms(_, _)
AndOfAlnumTerms(s, seen) ==
    IF s = <<>> THEN seen > 0
    ELSE IF Head(s) \in Alnum THEN AndOfAlnumTerms(Tail(s), seen + 1)
    ELSE /\ seen > 0
         /\ Len(s) >= 4
         /\ SubSeq(s, 1, 3) = <<" ", "&", " ">>
         /\ s[4] \in Alnum
         /\ AndOfAlnumTerms(SubSeq(s, 4, Len(s)), 0)

\* C10: whatever a normalizer returns is well-formed for its backend:
\* SQLite gets the words of the query, each in double quotes with its own
\* quotes doubled, separated by single spaces; PostgreSQL gets non-empty
\* alphanumeric terms separated by " & ", no operator leading, trailing or
\* doubled.
C10_NormalizedIsWellFormed ==
    last.op = "normalize" =>
        /\ norm.sqlite # None => QuotedTerms(norm.sqlite) = [ok |-> TRUE, terms |-> Split(raw)]
        /\ norm.postgres # None => AndOfAlnumTerms(norm.postgres, 0)

\* A query with a quote inside a word and two words that survive stripping.
C10_Witness ==
    /\ last.op = "normalize"
    /\ raw = <<"a", Quote, " ", "b">>
    /\ norm.sqlite = <<Quote, "a", Quote, Quote, Quote, " ", Quote, "b", Quote>>
    /\ norm.postgres = <<"a", " ", "&", " ", "b">>

====
